---------------------------- MODULE Spec2Model ----------------------------
(***************************************************************************)
(* The DataNode reconciler of the IoTDB operator                           *)
(* (iotdb-operator/internal/controller/datanode_controller.go).            *)
(*                                                                         *)
(* The module has two parts.  The first part gives the desired-state       *)
(* builders (constructServiceForDataNode, constructStateFulSetForDataNode, *)
(* constructPVCForDataNode) as operators.  A Go map is ranged over in an   *)
(* unspecified order, so each builder takes the iteration order as an      *)
(* argument and every caller chooses it nondeterministically.  The second  *)
(* part is the Reconcile pass as a state machine with one action per call  *)
(* of the cluster API, run against an API server with optimistic           *)
(* concurrency (resourceVersion), other writers, and edits of the DataNode.*)
(***************************************************************************)
EXTENDS Integers, Sequences, FiniteSets, TLC

VARIABLES
    dn,         \* the DataNode object stored in the cluster
    schemeOK,   \* whether the DataNode type is registered with r.Scheme
    svc,        \* live Services of the namespace, by name
    sts,        \* live StatefulSets of the namespace, by name
    nextRV,     \* the API server's revision counter (source of resourceVersion)
    pc,         \* position of the pass inside Reconcile
    dataNode,   \* Reconcile's local copy of the DataNode (line 57)
    services,   \* the list returned by constructServiceForDataNode (line 68)
    idx,        \* index of the range loop over services (line 72)
    existing,   \* existingService fetched at line 74
    current,    \* current StatefulSet fetched at line 96
    updated,    \* updatedStateFulSet built at line 107
    attempt,    \* calls of the RetryOnConflict closure made so far
    result,     \* what Reconcile returned: "none", "success" or "failure"
    log,        \* the API calls the pass has issued, in order
    converged,  \* history: the last pass succeeded and nothing changed since it began
    disturbed,  \* history: a write by someone else, or an edit, since the pass began
    passes,     \* passes started so far
    events,     \* events of the environment so far: edits, other writes, I/O faults
    queue       \* a request that a watch event put in the work queue is pending

vars == << dn, schemeOK, svc, sts, nextRV, pc, dataNode, services, idx, existing,
           current, updated, attempt, result, log, converged, disturbed,
           passes, events, queue >>

-----------------------------------------------------------------------------
(* Bounds of the model *)

MaxPasses == 2
MaxEvents == 1
MaxMapEntries == 2
MaxRevision == 8

-----------------------------------------------------------------------------
(* Names *)

DataNodeName == "datanode"
ConfigNodeName == "confignode"
HeadlessName == DataNodeName \o "-headless"
OtherName == "dn1"
Namespace == "default"

\* the nil map / nil pointer of Go
NilMap == << >>
NilService == [isNil |-> TRUE]

Absent == [exists |-> FALSE]

\* every enumeration order of a finite set: the orders a range over a map can take
Orders(S) == { f \in [1..Cardinality(S) -> S] : \A i, j \in 1..Cardinality(S) : f[i] = f[j] => i = j }

Range(f) == { f[i] : i \in DOMAIN f }

\* int32(x) of line 125.  Every integer the model checker can represent lies in
\* -2^31 .. 2^31-1, and on that range the conversion changes nothing.
Int32(x) == IF -2147483647 <= x /\ x <= 2147483647 THEN x ELSE x % 2147483647

-----------------------------------------------------------------------------
(* Port numbers *)

\* the ports the container declares (lines 202-210), by the configuration key
\* of the DataNode process that each one serves
ContainerPortOf ==
    [ dn_rpc_port |-> 6667,
      dn_internal_port |-> 10730,
      dn_mpp_data_exchange_port |-> 10740,
      dn_schema_region_consensus_port |-> 10750,
      dn_data_region_consensus_port |-> 10760,
      rest_service_port |-> 18080,
      dn_metric_prometheus_reporter_port |-> 9092 ]

PortKeys == DOMAIN ContainerPortOf

ContainerPorts ==
    << [name |-> "rpc-port", containerPort |-> 6667],
       [name |-> "internal-port", containerPort |-> 10730],
       [name |-> "exchange-port", containerPort |-> 10740],
       [name |-> "schema-port", containerPort |-> 10750],
       [name |-> "data-port", containerPort |-> 10760],
       [name |-> "rest-port", containerPort |-> 18080],
       [name |-> "metric-port", containerPort |-> 9092] >>

\* strutil.ToKebabCase on the keys the model uses: '_' becomes '-'
ToKebabCase(key) ==
    CASE key = "dn_rpc_port" -> "dn-rpc-port"
      [] key = "dn_internal_port" -> "dn-internal-port"
      [] key = "dn_mpp_data_exchange_port" -> "dn-mpp-data-exchange-port"
      [] key = "dn_schema_region_consensus_port" -> "dn-schema-region-consensus-port"
      [] key = "dn_data_region_consensus_port" -> "dn-data-region-consensus-port"
      [] key = "rest_service_port" -> "rest-service-port"
      [] key = "dn_metric_prometheus_reporter_port" -> "dn-metric-prometheus-reporter-port"
      [] key = "custom_key" -> "custom-key"
      [] OTHER -> key

-----------------------------------------------------------------------------
(* Ownership *)

NoOwner == ""

\* controllerutil.SetControllerReference(owner, object, scheme): fails when the
\* owner's type is not registered with the scheme, else stamps the reference
SetControllerReference(owner, obj, registered) ==
    IF registered
    THEN [err |-> FALSE, obj |-> [obj EXCEPT !.owner = owner.name]]
    ELSE [err |-> TRUE, obj |-> obj]

StampSkipped(owner, obj, registered) == [err |-> ~registered, obj |-> obj]

StampUnchecked(owner, obj, registered) == [err |-> FALSE, obj |-> [obj EXCEPT !.owner = owner.name]]

\* the stamping calls of the three builders
StampService(owner, obj, registered) == SetControllerReference(owner, obj, registered)

StampStatefulSet(owner, obj, registered) == SetControllerReference(owner, obj, registered)

StampPVC(owner, obj, registered) == SetControllerReference(owner, obj, registered)

-----------------------------------------------------------------------------
(* constructPVCForDataNode *)

NilObject == [isNil |-> TRUE]

constructPVCForDataNode(d, registered) ==
    LET pvc == [ name |-> DataNodeName,
                 namespace |-> d.namespace,
                 labels |-> [app |-> DataNodeName],
                 owner |-> NoOwner,
                 spec |-> d.volumeClaimTemplate ]
        r == StampPVC(d, pvc, registered)
    IN  IF r.err THEN NilObject ELSE r.obj

-----------------------------------------------------------------------------
(* constructStateFulSetForDataNode *)

EnvKeepsUserPort(key, value) == value

\* lines 133-147: a port variable gets the fixed value whatever the user gave
CanonEnvValue(key, value) ==
    IF key = "dn_rpc_port" THEN "6667"
    ELSE IF key = "dn_internal_port" THEN "10730"
    ELSE IF key = "dn_mpp_data_exchange_port" THEN "10740"
    ELSE IF key = "dn_schema_region_consensus_port" THEN "10750"
    ELSE IF key = "dn_data_region_consensus_port" THEN "10760"
    ELSE IF key = "dn_metric_prometheus_reporter_port" THEN "9092"
    ELSE IF key = "rest_service_port" THEN "18080"
    ELSE value

EnvVar(n, v) == [name |-> n, value |-> v, fieldPath |-> ""]

\* lines 126-164: order is the order in which range visits the keys of Spec.Envs
BuildEnvVars(d, order) ==
    LET user == IF d.envs # NilMap
                THEN [i \in 1..Len(order) |-> EnvVar(order[i], CanonEnvValue(order[i], d.envs[order[i]]))]
                ELSE << >>
        val1 == ConfigNodeName \o "-0." \o ConfigNodeName \o "-headless." \o d.namespace
                    \o ".svc.cluster.local:10710"
        val2 == "$(POD_NAME)." \o DataNodeName \o "-headless." \o d.namespace
                    \o ".svc.cluster.local"
    IN  user \o << [name |-> "POD_NAME", value |-> "", fieldPath |-> "metadata.name"],
                   EnvVar("dn_seed_config_node", val1),
                   EnvVar("dn_internal_address", val2) >>

Panic == [panic |-> TRUE]

IsPanic(x) == "panic" \in DOMAIN x

constructStateFulSetForDataNode(d, order, registered) ==
    LET labels == [app |-> DataNodeName]
        replicas == Int32(d.replicas)
        envVars == BuildEnvVars(d, order)
        pvcPtr == constructPVCForDataNode(d, registered)
    IN  IF pvcPtr = NilObject
        THEN Panic   \* line 166 dereferences the nil pointer
        ELSE
        LET pvcTemplate == pvcPtr
            pvcName == pvcTemplate.name
            statefulset ==
              [ exists |-> TRUE,
                name |-> DataNodeName,
                namespace |-> d.namespace,
                labels |-> labels,
                owner |-> NoOwner,
                resourceVersion |-> 0,
                annotation |-> 0,
                spec |->
                  [ replicas |-> replicas,
                    selector |-> labels,
                    serviceName |-> DataNodeName \o "-headless",
                    templateLabels |-> labels,
                    antiAffinity |-> [selector |-> labels, topologyKey |-> "kubernetes.io/hostname"],
                    containers |->
                      << [ name |-> DataNodeName,
                           image |-> d.image,
                           imagePullPolicy |-> "IfNotPresent",
                           ports |-> ContainerPorts,
                           limits |-> d.limits,
                           requests |-> d.limits,
                           env |-> envVars,
                           volumeMounts |->
                             << [name |-> pvcName, mountPath |-> "/iotdb/data", subPath |-> "data"],
                                [name |-> pvcName, mountPath |-> "/iotdb/logs", subPath |-> "logs"],
                                [name |-> pvcName, mountPath |-> "/iotdb/ext", subPath |-> "ext"],
                                [name |-> pvcName, mountPath |-> "/iotdb/.env", subPath |-> ".env"],
                                [name |-> pvcName, mountPath |-> "/iotdb/activation", subPath |-> "activation"] >> ] >>,
                    volumeClaimTemplates |-> << pvcTemplate >> ] ]
            r == StampStatefulSet(d, statefulset, registered)
        IN  IF r.err THEN NilObject ELSE r.obj

-----------------------------------------------------------------------------
(* constructServiceForDataNode *)

ServicePort(n, p, tp, np) == [name |-> n, port |-> p, targetPort |-> tp, nodePort |-> np]

HeadlessService(d) ==
    [ exists |-> TRUE,
      name |-> DataNodeName \o "-headless",
      namespace |-> d.namespace,
      labels |-> [app |-> DataNodeName],
      owner |-> NoOwner,
      resourceVersion |-> 0,
      annotation |-> 0,
      spec |->
        [ clusterIP |-> "None",
          type |-> "",
          ports |->
            << ServicePort("dn-internal-port", 10730, 10730, 0),
               ServicePort("dn-mpp-data-exchange-port", 10740, 10750, 0),
               ServicePort("dn-data-region-consensus-port", 10760, 10760, 0),
               ServicePort("dn-schema-region-consensus-port", 10750, 10750, 0),
               ServicePort("dn-rpc-port", 6667, 6667, 0),
               ServicePort("rest-service-port", 18080, 18080, 0),
               ServicePort("dn-metric-prometheus-reporter-port", 9092, 9092, 0) >>,
          selector |-> [app |-> DataNodeName] ] ]

ExposedAllPortKeys(key) == key \in PortKeys

\* lines 306, 315, 324: the keys of Spec.Service.Ports that yield a port
ExposureRecognized(key) ==
    key \in {"dn_metric_prometheus_reporter_port", "rest_service_port", "dn_rpc_port"}

\* lines 305-325: the port written for a recognized key
ExposurePortNumber(key, value) ==
    IF key = "dn_metric_prometheus_reporter_port" THEN 9092
    ELSE IF key = "rest_service_port" THEN 18080
    ELSE IF key = "dn_rpc_port" THEN 6667
    ELSE value

\* lines 302-334: order is the order in which range visits Spec.Service.Ports
ExposurePorts(d, order) ==
    LET hit == SelectSeq(order, ExposureRecognized)
    IN  [ i \in 1..Len(hit) |->
            LET key == hit[i]
                value == d.service.ports[key]
                port == ExposurePortNumber(key, value)
            IN  ServicePort(ToKebabCase(key), port, port, value) ]

NodePortService(d, nodePorts) ==
    [ exists |-> TRUE,
      name |-> DataNodeName,
      namespace |-> d.namespace,
      labels |-> [app |-> DataNodeName],
      owner |-> NoOwner,
      resourceVersion |-> 0,
      annotation |-> 0,
      spec |->
        [ clusterIP |-> "",
          type |-> d.service.type,
          ports |-> nodePorts,
          selector |-> [app |-> DataNodeName] ] ]

\* returns [err, services]
constructServiceForDataNode(d, order, registered) ==
    LET h == StampService(d, HeadlessService(d), registered)
    IN  IF h.err THEN [err |-> TRUE, services |-> << >>]
        ELSE IF d.service # NilService /\ Cardinality(DOMAIN d.service.ports) > 0
        THEN LET ports == ExposurePorts(d, order)
                 i == Len(ports)
             IN  IF i > 0
                 THEN LET n == StampService(d, NodePortService(d, ports), registered)
                      IN  IF n.err THEN [err |-> TRUE, services |-> << >>]
                          ELSE [err |-> FALSE, services |-> << h.obj, n.obj >>]
                 ELSE [err |-> FALSE, services |-> << h.obj >>]
        ELSE [err |-> FALSE, services |-> << h.obj >>]

\* the orders range can take over a map (one empty order for the nil map)
EnvOrders(d) == IF d.envs = NilMap THEN { << >> } ELSE Orders(DOMAIN d.envs)

PortOrders(d) == IF d.service = NilService THEN { << >> } ELSE Orders(DOMAIN d.service.ports)

-----------------------------------------------------------------------------
(* The DataNode objects the model ranges over *)

DataNodeObject(n, r, e, sv) ==
    [ exists |-> TRUE,
      name |-> n,
      namespace |-> Namespace,
      replicas |-> r,
      image |-> "apache/iotdb:latest",
      limits |-> [cpu |-> "8000m", memory |-> "16Gi"],
      envs |-> e,
      volumeClaimTemplate |-> [storage |-> "200Gi", storageClassName |-> "local-storage"],
      service |-> sv ]

TwoEnvs == [k \in {"dn_rpc_port", "custom_key"} |-> IF k = "dn_rpc_port" THEN "1234" ELSE "x"]

ExposeRpc == [isNil |-> FALSE, type |-> "NodePort", ports |-> [k \in {"dn_rpc_port"} |-> 30001]]

DataNodeNames == {DataNodeName, OtherName}

DataNodeChoices(n) ==
    { DataNodeObject(n, 1, NilMap, NilService),
      DataNodeObject(n, 2, TwoEnvs, NilService),
      DataNodeObject(n, 1, NilMap, ExposeRpc) }

-----------------------------------------------------------------------------
(* The cluster API: one revision counter, a fresh resourceVersion per write *)

ServiceNames == {HeadlessName, DataNodeName}
StatefulSetNames == {DataNodeName, OtherName}

\* client.Create: the outcome and the store after it
ApiCreate(store, obj, io) ==
    IF io THEN [res |-> "IOError", store |-> store]
    ELSE IF store[obj.name].exists THEN [res |-> "AlreadyExists", store |-> store]
    ELSE [res |-> "ok", store |-> [store EXCEPT ![obj.name] = [obj EXCEPT !.resourceVersion = nextRV]]]

\* client.Update: a full replacement, accepted only on the live resourceVersion
\* (an object sent without a resourceVersion is written unconditionally)
ApiUpdate(store, obj, io) ==
    IF io THEN [res |-> "IOError", store |-> store]
    ELSE IF ~store[obj.name].exists THEN [res |-> "NotFound", store |-> store]
    ELSE IF obj.resourceVersion # 0 /\ store[obj.name].resourceVersion # obj.resourceVersion
    THEN [res |-> "Conflict", store |-> store]
    ELSE [res |-> "ok", store |-> [store EXCEPT ![obj.name] = [obj EXCEPT !.resourceVersion = nextRV]]]

\* client.Get
ApiGet(store, name, io) ==
    IF io THEN [res |-> "IOError", obj |-> Absent]
    ELSE IF ~store[name].exists THEN [res |-> "NotFound", obj |-> Absent]
    ELSE [res |-> "ok", obj |-> store[name]]

-----------------------------------------------------------------------------
(* The log of a pass *)

GetEntry(kind, name, r) ==
    [ op |-> "get", kind |-> kind, name |-> name, res |-> r.res,
      rv |-> IF r.res = "ok" THEN r.obj.resourceVersion ELSE 0,
      owner |-> NoOwner, pvcOwner |-> NoOwner, attempt |-> attempt ]

RootEntry(name, res) ==
    [ op |-> "get", kind |-> "DataNode", name |-> name, res |-> res, rv |-> 0,
      owner |-> NoOwner, pvcOwner |-> NoOwner, attempt |-> attempt ]

WriteEntry(op, kind, obj, r) ==
    [ op |-> op, kind |-> kind, name |-> obj.name, res |-> r.res,
      rv |-> obj.resourceVersion,
      owner |-> obj.owner,
      pvcOwner |-> IF kind = "StatefulSet" THEN obj.spec.volumeClaimTemplates[1].owner ELSE NoOwner,
      attempt |-> attempt ]

IsWrite(e) == e.op \in {"create", "update"}

Writes(l) == SelectSeq(l, IsWrite)

-----------------------------------------------------------------------------
(* Reconcile *)

RetrySteps == 5

\* SetupWithManager (lines 379-382): For(DataNode), Owns(Service),
\* Owns(PersistentVolumeClaim)
ForKind == "DataNode"

OwnsKinds == {"Service", "PersistentVolumeClaim"}

\* an event of an object of this kind with this controller owner puts a
\* request for the owner in the work queue
Enqueues(kind, owner) == kind \in OwnsKinds /\ owner # NoOwner

\* an event of the object the controller is For puts a request for it
EnqueuesSelf(kind) == kind = ForKind

Notify(kind, owner) == queue' = (queue \/ Enqueues(kind, owner))

\* a call of the API may fail for a reason of its own (TransientIO)
Faults == IF events < MaxEvents THEN BOOLEAN ELSE {FALSE}

Fault(io) == events' = IF io THEN events + 1 ELSE events

\* return from Reconcile
Return(res) ==
    /\ pc' = "done"
    /\ result' = res
    /\ converged' = (res = "success" /\ ~disturbed)

Continue(next) ==
    /\ pc' = next
    /\ UNCHANGED << result, converged >>

Init ==
    /\ \E n \in DataNodeNames : dn \in DataNodeChoices(n) \cup {[exists |-> FALSE, name |-> n]}
    /\ schemeOK \in BOOLEAN
    /\ svc = [n \in ServiceNames |-> Absent]
    /\ sts = [n \in StatefulSetNames |-> Absent]
    /\ nextRV = 1
    /\ pc = "idle"
    /\ dataNode = Absent
    /\ services = << >>
    /\ idx = 0
    /\ existing = Absent
    /\ current = Absent
    /\ updated = Absent
    /\ attempt = 0
    /\ result = "none"
    /\ log = << >>
    /\ converged = FALSE
    /\ disturbed = FALSE
    /\ passes = 0
    /\ events = 0
    /\ queue = TRUE

\* the work queue hands a request to Reconcile, one pass per DataNode at a
\* time.  The request may come from a watch event, from the requeue of a
\* failed pass or from the periodic resync, so a pass may start at any time;
\* it takes the pending request with it.
StartPass ==
    /\ pc \in {"idle", "done"}
    /\ passes < MaxPasses
    /\ passes' = passes + 1
    /\ pc' = "getDataNode"
    /\ dataNode' = Absent
    /\ services' = << >>
    /\ idx' = 0
    /\ existing' = Absent
    /\ current' = Absent
    /\ updated' = Absent
    /\ attempt' = 0
    /\ result' = "none"
    /\ log' = << >>
    /\ disturbed' = FALSE
    /\ queue' = FALSE
    /\ UNCHANGED << dn, schemeOK, svc, sts, nextRV, converged, events >>

RootNotFoundFails(res) == IF res # "ok" THEN "failure" ELSE "continue"

\* the outcome of the Get of the DataNode (lines 58-65)
RootGetOutcome(res) ==
    IF res = "NotFound" THEN "success"
    ELSE IF res # "ok" THEN "failure"
    ELSE "continue"

\* lines 57-71
GetDataNode ==
    /\ pc = "getDataNode"
    /\ \E io \in Faults :
         LET r == IF io THEN [res |-> "IOError", obj |-> Absent]
                  ELSE IF ~dn.exists THEN [res |-> "NotFound", obj |-> Absent]
                  ELSE [res |-> "ok", obj |-> dn]
             out == RootGetOutcome(r.res)
         IN  /\ Fault(io)
             /\ log' = Append(log, RootEntry(dn.name, r.res))
             /\ IF out # "continue"
                THEN /\ Return(out)
                     /\ UNCHANGED << dataNode, services, idx >>
                ELSE /\ dataNode' = r.obj
                     /\ \E order \in PortOrders(r.obj) :
                          LET c == constructServiceForDataNode(r.obj, order, schemeOK)
                          IN  IF c.err
                              THEN /\ Return("failure")
                                   /\ UNCHANGED << services, idx >>
                              ELSE /\ services' = c.services
                                   /\ idx' = 1
                                   /\ Continue("getService")
    /\ UNCHANGED << dn, schemeOK, svc, sts, nextRV, existing, current, updated, attempt,
                    disturbed, passes, queue >>

\* the end of one iteration of the loop over services (lines 72, 91)
NextService ==
    IF idx < Len(services)
    THEN /\ idx' = idx + 1
         /\ Continue("getService")
    ELSE /\ idx' = idx
         /\ Continue("getStatefulSet")

\* line 83: reflect.DeepEqual(existingService.Spec, service.Spec)
ServiceUpToDate(live, want) == live.spec = want.spec

\* lines 73-83
GetService ==
    /\ pc = "getService"
    /\ \E io \in Faults :
         LET service == services[idx]
             r == ApiGet(svc, service.name, io)
         IN  /\ Fault(io)
             /\ log' = Append(log, GetEntry("Service", service.name, r))
             /\ existing' = r.obj
             /\ IF r.res = "NotFound"
                THEN /\ idx' = idx
                     /\ Continue("createService")
                ELSE IF r.res # "ok"
                THEN /\ idx' = idx
                     /\ Return("failure")
                ELSE IF ~ServiceUpToDate(r.obj, service)
                THEN /\ idx' = idx
                     /\ Continue("updateService")
                ELSE NextService
    /\ UNCHANGED << dn, schemeOK, svc, sts, nextRV, dataNode, services, current, updated,
                    attempt, disturbed, passes, queue >>

\* lines 76-78
CreateService ==
    /\ pc = "createService"
    /\ \E io \in Faults :
         LET service == services[idx]
             r == ApiCreate(svc, service, io)
         IN  /\ Fault(io)
             /\ log' = Append(log, WriteEntry("create", "Service", service, r))
             /\ svc' = r.store
             /\ IF r.res = "ok" THEN Notify("Service", service.owner) ELSE UNCHANGED queue
             /\ nextRV' = IF r.res = "ok" THEN nextRV + 1 ELSE nextRV
             /\ IF r.res # "ok"
                THEN /\ idx' = idx
                     /\ Return("failure")
                ELSE NextService
    /\ UNCHANGED << dn, schemeOK, sts, dataNode, services, existing, current, updated,
                    attempt, disturbed, passes >>

TokenNotCarried(live) == 0

\* lines 84 and 109: the resourceVersion put on the object to update
CarriedToken(live) == live.resourceVersion

\* lines 84-87
UpdateService ==
    /\ pc = "updateService"
    /\ \E io \in Faults :
         LET service == [services[idx] EXCEPT !.resourceVersion = CarriedToken(existing)]
             r == ApiUpdate(svc, service, io)
         IN  /\ Fault(io)
             /\ log' = Append(log, WriteEntry("update", "Service", service, r))
             /\ svc' = r.store
             /\ IF r.res = "ok" THEN Notify("Service", service.owner) ELSE UNCHANGED queue
             /\ nextRV' = IF r.res = "ok" THEN nextRV + 1 ELSE nextRV
             /\ IF r.res # "ok"
                THEN /\ idx' = idx
                     /\ Return("failure")
                ELSE NextService
    /\ UNCHANGED << dn, schemeOK, sts, dataNode, services, existing, current, updated,
                    attempt, disturbed, passes >>

RetryWithoutBudget(err, n) ==
    IF err = "ok" THEN "success"
    ELSE IF err = "Conflict" THEN "retry"
    ELSE "failure"

RetryEveryError(err, n) ==
    IF err = "ok" THEN "success"
    ELSE IF n < RetrySteps THEN "retry"
    ELSE "failure"

\* RetryOnConflict(retry.DefaultRetry, fn): what follows a call of fn that
\* returned err, the n-th call
AfterAttempt(err, n) ==
    IF err = "ok" THEN "success"
    ELSE IF err = "Conflict" /\ n < RetrySteps THEN "retry"
    ELSE "failure"

\* lines 94, 113-120: the closure returned err
ClosureReturns(err, n) ==
    LET next == AfterAttempt(err, n)
    IN  IF next = "retry" THEN Continue("getStatefulSet") ELSE Return(next)

\* line 96: the name under which the live StatefulSet is fetched
FetchName(d) == d.name

\* line 108: reflect.DeepEqual(current.Spec, updatedStateFulSet.Spec)
StatefulSetUpToDate(live, want) == live.spec = want.spec

\* lines 95-96, 104-112: one call of the closure up to its Create or Update
GetStatefulSet ==
    /\ pc = "getStatefulSet"
    /\ attempt' = attempt + 1
    /\ \E io \in Faults :
         LET r == ApiGet(sts, FetchName(dataNode), io)
         IN  /\ Fault(io)
             /\ log' = Append(log, [GetEntry("StatefulSet", FetchName(dataNode), r) EXCEPT !.attempt = attempt'])
             /\ current' = r.obj
             /\ IF r.res = "NotFound"
                THEN /\ updated' = Absent
                     /\ Continue("createStatefulSet")
                ELSE IF r.res # "ok"
                THEN /\ updated' = Absent
                     /\ ClosureReturns(r.res, attempt + 1)
                ELSE \E order \in EnvOrders(dataNode) :
                       LET updatedStateFulSet == constructStateFulSetForDataNode(dataNode, order, schemeOK)
                       IN  IF IsPanic(updatedStateFulSet) \/ updatedStateFulSet = NilObject
                           THEN /\ updated' = Absent
                                /\ Return("panic")
                           ELSE IF ~StatefulSetUpToDate(r.obj, updatedStateFulSet)
                           THEN /\ updated' = [updatedStateFulSet EXCEPT !.resourceVersion = CarriedToken(r.obj)]
                                /\ Continue("updateStatefulSet")
                           ELSE /\ updated' = Absent
                                /\ ClosureReturns("ok", attempt + 1)
    /\ UNCHANGED << dn, schemeOK, svc, sts, nextRV, dataNode, services, idx, existing,
                    disturbed, passes, queue >>

\* lines 98-102
CreateStatefulSet ==
    /\ pc = "createStatefulSet"
    /\ \E io \in Faults, order \in EnvOrders(dataNode) :
         LET stateFulSet == constructStateFulSetForDataNode(dataNode, order, schemeOK)
         IN  /\ Fault(io)
             /\ IF IsPanic(stateFulSet) \/ stateFulSet = NilObject
                THEN /\ Return("panic")
                     /\ UNCHANGED << sts, nextRV, log, queue >>
                ELSE LET r == ApiCreate(sts, stateFulSet, io)
                     IN  /\ log' = Append(log, WriteEntry("create", "StatefulSet", stateFulSet, r))
                         /\ sts' = r.store
                         /\ IF r.res = "ok" THEN Notify("StatefulSet", stateFulSet.owner)
                            ELSE UNCHANGED queue
                         /\ nextRV' = IF r.res = "ok" THEN nextRV + 1 ELSE nextRV
                         /\ ClosureReturns(r.res, attempt)
    /\ UNCHANGED << dn, schemeOK, svc, dataNode, services, idx, existing, current, updated,
                    attempt, disturbed, passes >>

\* line 110
UpdateStatefulSet ==
    /\ pc = "updateStatefulSet"
    /\ \E io \in Faults :
         LET r == ApiUpdate(sts, updated, io)
         IN  /\ Fault(io)
             /\ log' = Append(log, WriteEntry("update", "StatefulSet", updated, r))
             /\ sts' = r.store
             /\ IF r.res = "ok" THEN Notify("StatefulSet", updated.owner) ELSE UNCHANGED queue
             /\ nextRV' = IF r.res = "ok" THEN nextRV + 1 ELSE nextRV
             /\ ClosureReturns(r.res, attempt)
    /\ UNCHANGED << dn, schemeOK, svc, dataNode, services, idx, existing, current, updated,
                    attempt, disturbed, passes >>

-----------------------------------------------------------------------------
(* The rest of the cluster: the user editing the DataNode, and other writers *)

Disturb ==
    /\ disturbed' = TRUE
    /\ converged' = FALSE

\* the environment is followed while a pass of the model can still see what it did
EnvironmentActs ==
    /\ events < MaxEvents
    /\ pc # "done" \/ passes < MaxPasses
    /\ events' = events + 1

\* the user creates, edits or deletes the DataNode
EditDataNode ==
    /\ EnvironmentActs
    /\ \E d \in DataNodeChoices(dn.name) \cup {[exists |-> FALSE, name |-> dn.name]} :
         /\ d # dn
         /\ dn' = d
    /\ queue' = (queue \/ EnqueuesSelf("DataNode"))
    /\ Disturb
    /\ UNCHANGED << schemeOK, svc, sts, nextRV, pc, dataNode, services, idx, existing, current,
                    updated, attempt, result, log, passes >>

\* what another writer does to a live object: to a StatefulSet, it sets an
\* annotation or scales it; to a Service, it fills in a cluster IP
OtherWritesTo(obj) ==
    IF "replicas" \in DOMAIN obj.spec
    THEN { [obj EXCEPT !.annotation = 1], [obj EXCEPT !.spec.replicas = 3] }
    ELSE { [obj EXCEPT !.spec.clusterIP = "10.0.0.1"] }

OtherWriterUpdatesService ==
    /\ EnvironmentActs
    /\ \E n \in ServiceNames :
         /\ svc[n].exists
         /\ \E o \in OtherWritesTo(svc[n]) :
              /\ o # svc[n]
              /\ svc' = [svc EXCEPT ![n] = [o EXCEPT !.resourceVersion = nextRV]]
              /\ Notify("Service", o.owner)
    /\ nextRV' = nextRV + 1
    /\ Disturb
    /\ UNCHANGED << dn, schemeOK, sts, pc, dataNode, services, idx, existing, current,
                    updated, attempt, result, log, passes >>

OtherWriterUpdatesStatefulSet ==
    /\ EnvironmentActs
    /\ \E n \in StatefulSetNames :
         /\ sts[n].exists
         /\ \E o \in OtherWritesTo(sts[n]) :
              /\ o # sts[n]
              /\ sts' = [sts EXCEPT ![n] = [o EXCEPT !.resourceVersion = nextRV]]
              /\ Notify("StatefulSet", o.owner)
    /\ nextRV' = nextRV + 1
    /\ Disturb
    /\ UNCHANGED << dn, schemeOK, svc, pc, dataNode, services, idx, existing, current,
                    updated, attempt, result, log, passes >>

\* the DataNodes from which another writer derives a StatefulSet: the DataNode
\* of the cluster (another instance of the controller at work on it), and one
\* with another replica count
OtherWorkloads ==
    { DataNodeObject(DataNodeName, 3, NilMap, NilService) }
    \cup (IF dn.exists THEN {dn} ELSE {})

\* another writer creates a StatefulSet: a racing creator of the workload, or
\* a StatefulSet that bears the DataNode's own name
OtherWriterCreatesStatefulSet ==
    /\ EnvironmentActs
    /\ \E n \in {DataNodeName, dn.name}, d \in OtherWorkloads :
         /\ ~sts[n].exists
         /\ \E order \in EnvOrders(d) :
              LET o == constructStateFulSetForDataNode(d, order, TRUE)
              IN  sts' = [sts EXCEPT ![n] = [o EXCEPT !.name = n, !.owner = NoOwner,
                                                       !.resourceVersion = nextRV]]
    /\ Notify("StatefulSet", NoOwner)
    /\ nextRV' = nextRV + 1
    /\ Disturb
    /\ UNCHANGED << dn, schemeOK, svc, pc, dataNode, services, idx, existing, current,
                    updated, attempt, result, log, passes >>

\* another writer creates a Service of one of the names the pass derives
OtherWriterCreatesService ==
    /\ EnvironmentActs
    /\ \E n \in ServiceNames :
         /\ ~svc[n].exists
         /\ LET d == DataNodeObject(DataNodeName, 1, NilMap, ExposeRpc)
                c == constructServiceForDataNode(d, << "dn_rpc_port" >>, TRUE)
                o == IF n = HeadlessName THEN c.services[1] ELSE c.services[2]
            IN  svc' = [svc EXCEPT ![n] = [o EXCEPT !.owner = NoOwner, !.resourceVersion = nextRV]]
    /\ Notify("Service", NoOwner)
    /\ nextRV' = nextRV + 1
    /\ Disturb
    /\ UNCHANGED << dn, schemeOK, sts, pc, dataNode, services, idx, existing, current,
                    updated, attempt, result, log, passes >>

-----------------------------------------------------------------------------

Next ==
    \/ StartPass
    \/ GetDataNode
    \/ GetService
    \/ CreateService
    \/ UpdateService
    \/ GetStatefulSet
    \/ CreateStatefulSet
    \/ UpdateStatefulSet
    \/ EditDataNode
    \/ OtherWriterUpdatesService
    \/ OtherWriterUpdatesStatefulSet
    \/ OtherWriterCreatesStatefulSet
    \/ OtherWriterCreatesService

Spec == Init /\ [][Next]_vars

-----------------------------------------------------------------------------
(* Reconcile against a writer that races with its Updates.  The writer is   *)
(* not counted among the events: it may come back at every attempt, until   *)
(* the revision counter reaches MaxRevision.  A call of the API returns, so *)
(* a pass that has started keeps taking steps: weak fairness of PassStep.   *)

\* the writer writes the object that the pass has fetched and is about to
\* update, between the fetch and the Update: the token of the pass is stale
RacingWriter ==
    /\ pc \in {"updateService", "updateStatefulSet"}
    /\ nextRV < MaxRevision
    /\ IF pc = "updateService"
       THEN LET n == services[idx].name
            IN  /\ svc[n].exists
                /\ svc[n].resourceVersion = existing.resourceVersion
                /\ svc' = [svc EXCEPT ![n] = [@ EXCEPT !.annotation = 1 - @,
                                                       !.resourceVersion = nextRV]]
                /\ Notify("Service", svc[n].owner)
                /\ UNCHANGED sts
       ELSE LET n == updated.name
            IN  /\ sts[n].exists
                /\ sts[n].resourceVersion = updated.resourceVersion
                /\ sts' = [sts EXCEPT ![n] = [@ EXCEPT !.annotation = 1 - @,
                                                       !.resourceVersion = nextRV]]
                /\ Notify("StatefulSet", sts[n].owner)
                /\ UNCHANGED svc
    /\ nextRV' = nextRV + 1
    /\ Disturb
    /\ UNCHANGED << dn, schemeOK, pc, dataNode, services, idx, existing, current,
                    updated, attempt, result, log, passes, events >>

PassStep ==
    \/ GetDataNode
    \/ GetService
    \/ CreateService
    \/ UpdateService
    \/ GetStatefulSet
    \/ CreateStatefulSet
    \/ UpdateStatefulSet

NextRace ==
    \/ StartPass
    \/ GetDataNode
    \/ GetService
    \/ CreateService
    \/ UpdateService
    \/ GetStatefulSet
    \/ CreateStatefulSet
    \/ UpdateStatefulSet
    \/ OtherWriterUpdatesService
    \/ OtherWriterUpdatesStatefulSet
    \/ RacingWriter

SpecRace == Init /\ [][NextRace]_vars /\ WF_vars(PassStep)

-----------------------------------------------------------------------------
(* The builders on their own: a DataNode drawn from a wider set, on which     *)
(* constructServiceForDataNode and constructStateFulSetForDataNode are called *)

MapKeys == PortKeys \cup {"custom_key"}

SmallKeySets == { K \in SUBSET MapKeys : Cardinality(K) <= MaxMapEntries }

EnvMaps == UNION { [K -> {"1234", "6667"}] : K \in SmallKeySets }

PortMaps == UNION { [K -> {30001, 6667}] : K \in SmallKeySets }

BuilderDataNodes ==
    { DataNodeObject(DataNodeName, 3, e, NilService) : e \in EnvMaps }
    \cup { DataNodeObject(DataNodeName, 3, NilMap, [isNil |-> FALSE, type |-> "NodePort", ports |-> p]) :
             p \in PortMaps }

InitBuild ==
    /\ dn \in BuilderDataNodes
    /\ schemeOK \in BOOLEAN
    /\ svc = [n \in ServiceNames |-> Absent]
    /\ sts = [n \in StatefulSetNames |-> Absent]
    /\ nextRV = 1
    /\ pc = "idle"
    /\ dataNode = dn
    /\ services = << >>
    /\ idx = 0
    /\ existing = Absent
    /\ current = Absent
    /\ updated = Absent
    /\ attempt = 0
    /\ result = "none"
    /\ log = << >>
    /\ converged = FALSE
    /\ disturbed = FALSE
    /\ passes = 0
    /\ events = 0
    /\ queue = TRUE

\* services, err := r.constructServiceForDataNode(&dataNode)
BuildServices ==
    /\ pc = "idle"
    /\ \E order \in PortOrders(dataNode) :
         LET c == constructServiceForDataNode(dataNode, order, schemeOK)
         IN  /\ services' = c.services
             /\ result' = IF c.err THEN "failure" ELSE "success"
    /\ pc' = "services"
    /\ UNCHANGED << dn, schemeOK, svc, sts, nextRV, dataNode, idx, existing, current, updated,
                    attempt, log, converged, disturbed, passes, events, queue >>

\* r.constructStateFulSetForDataNode(&dataNode)
BuildStatefulSet ==
    /\ pc = "services"
    /\ \E order \in EnvOrders(dataNode) :
         updated' = constructStateFulSetForDataNode(dataNode, order, schemeOK)
    /\ pc' = "built"
    /\ UNCHANGED << dn, schemeOK, svc, sts, nextRV, dataNode, services, idx, existing, current,
                    attempt, result, log, converged, disturbed, passes, events, queue >>

NextBuild ==
    \/ BuildServices
    \/ BuildStatefulSet

SpecBuild == InitBuild /\ [][NextBuild]_vars

-----------------------------------------------------------------------------
(* Claims about the builders *)

BuiltWorkload == pc = "built" /\ ~IsPanic(updated) /\ updated # NilObject

BuiltServices == pc \in {"services", "built"} /\ result = "success"

BuiltEnv == updated.spec.containers[1].env

\* C5 (port canonicalization): in the StatefulSet built from S, every
\* environment entry whose name is a port key carries that port's fixed
\* number, whatever value S gave it; and in the exposure Service built from S,
\* every port that comes from a port key of S has that port's fixed number as
\* port and as target port, whatever number S gave (which is kept as node port).
C5_PortCanonicalization ==
    /\ BuiltWorkload =>
         /\ \A k \in DOMAIN dataNode.envs :
              \E i \in 1..Len(BuiltEnv) : BuiltEnv[i].name = k
         /\ \A i \in 1..Len(BuiltEnv) :
              BuiltEnv[i].name \in PortKeys =>
                BuiltEnv[i].value = ToString(ContainerPortOf[BuiltEnv[i].name])
    /\ (BuiltServices /\ Len(services) = 2) =>
         \A i \in 1..Len(services[2].spec.ports) :
           \A k \in PortKeys :
             services[2].spec.ports[i].name = ToKebabCase(k) =>
               /\ services[2].spec.ports[i].port = ContainerPortOf[k]
               /\ services[2].spec.ports[i].targetPort = ContainerPortOf[k]
               /\ services[2].spec.ports[i].nodePort = dataNode.service.ports[k]

C5_Witness ==
    /\ BuiltWorkload
    /\ "dn_data_region_consensus_port" \in DOMAIN dataNode.envs
    /\ dataNode.envs["dn_data_region_consensus_port"] = "1234"
    /\ \E i \in 1..Len(BuiltEnv) :
         BuiltEnv[i] = EnvVar("dn_data_region_consensus_port", "10760")

PortSet(service) == { service.spec.ports[i] : i \in 1..Len(service.spec.ports) }

ExposureDeclared(d, keys) == d.service # NilService /\ DOMAIN d.service.ports \cap keys # {}

ExpectedExposure(d, keys) ==
    { ServicePort(ToKebabCase(k), ContainerPortOf[k], ContainerPortOf[k], d.service.ports[k]) :
        k \in DOMAIN d.service.ports \cap keys }

ExposureContract(keys) ==
    BuiltServices =>
      /\ services[1].name = HeadlessName
      /\ Len(services) \in {1, 2}
      /\ Len(services) = 2 <=> ExposureDeclared(dataNode, keys)
      /\ Len(services) = 2 =>
           /\ services[2].spec.type = dataNode.service.type
           /\ PortSet(services[2]) = ExpectedExposure(dataNode, keys)
           /\ Len(services[2].spec.ports) = Cardinality(ExpectedExposure(dataNode, keys))

\* C6 as stated: the builder returns the exposure Service exactly when S's
\* exposure mapping names one of the seven port keys, and its ports are exactly
\* those of the port keys named.
C6_AsStated == ExposureContract(PortKeys)

ExposableKeys == {"dn_rpc_port", "rest_service_port", "dn_metric_prometheus_reporter_port"}

\* C6 (amended): the builder returns the exposure Service exactly when S's
\* exposure mapping names one of dn_rpc_port, rest_service_port and
\* dn_metric_prometheus_reporter_port; its ports are exactly those of these
\* three keys that S names, each with the fixed port as port and target port
\* and S's number as node port; every other key, the four remaining port keys
\* included, is dropped, and with no key of the three only the headless
\* Service is returned.
C6_ExposureOfThreeKeys == ExposureContract(ExposableKeys)

C6_Witness ==
    /\ BuiltServices
    /\ dataNode.service # NilService
    /\ DOMAIN dataNode.service.ports = {"rest_service_port", "custom_key"}
    /\ Len(services) = 2
    /\ Len(services[2].spec.ports) = 1

-----------------------------------------------------------------------------
(* Claims about Reconcile *)

\* the step on which Reconcile returns
Returns == pc # "done" /\ pc' = "done"

IsFault(e) == e.res = "IOError"

NoFault(l) == SelectSeq(l, IsFault) = << >>

\* C1 (idempotence), as stated: when the previous pass over S succeeded and
\* neither S nor any live object was changed by anyone else since that pass
\* began, the next pass, if no call of it meets an I/O fault, issues no create
\* and no update and returns success.
C1_Idempotence ==
    [][ (Returns /\ converged /\ ~disturbed' /\ NoFault(log'))
          => (result' = "success" /\ Writes(log') = << >>) ]_vars

EnvSet(obj) == Range(obj.spec.containers[1].env)

\* the live workload agrees with what constructStateFulSetForDataNode derives from d
WorkloadConverged(live, d) ==
    /\ live.exists
    /\ \E order \in EnvOrders(d) :
         LET want == constructStateFulSetForDataNode(d, order, TRUE)
         IN  /\ live.spec.replicas = want.spec.replicas
             /\ live.spec.containers[1].image = want.spec.containers[1].image
             /\ live.spec.containers[1].limits = want.spec.containers[1].limits
             /\ EnvSet(live) = EnvSet(want)
             /\ live.spec.containers[1].ports = want.spec.containers[1].ports

\* C2 (convergence), as stated: when a pass over S returns success, the live
\* workload (the StatefulSet of the name the builder gives it) exists and its
\* replica count, image, resource limits, environment set and port list are
\* those of constructStateFulSetForDataNode(S).
C2_Convergence ==
    [][ (Returns /\ result' = "success" /\ dataNode'.exists)
          => WorkloadConverged(sts'[DataNodeName], dataNode') ]_vars

\* the step that sends the Update of the StatefulSet, and the call it logs
WorkloadUpdateStep == pc = "updateStatefulSet" /\ Len(log') = Len(log) + 1

Last(l) == l[Len(l)]

\* C3 (conflict safety), as stated: an Update of the workload sent after a
\* Conflict carries the token of the fetch made again in that attempt, and
\* when it is accepted it leaves in place what the other writer wrote apart
\* from the fields the pass derives: the annotation stays as it was.
C3_AsStated ==
    [][ (WorkloadUpdateStep /\ attempt >= 2)
          => /\ Last(log').rv = current.resourceVersion
             /\ Last(log').res = "ok" =>
                  sts'[Last(log').name].annotation = sts[Last(log').name].annotation ]_vars

\* C3 (amended): every Update of the workload carries the token returned by
\* the fetch of the same attempt, the call just before it; an Update rejected
\* with Conflict before the budget is spent is followed by a new fetch; and an
\* accepted Update replaces the whole live object by the derived one, spec and
\* metadata, so that what the other writer wrote is overwritten.
C3_RetryReplaces ==
    [][ WorkloadUpdateStep
          => /\ Last(log').rv = current.resourceVersion
             /\ Last(log).op = "get" /\ Last(log).kind = "StatefulSet" /\ Last(log).res = "ok"
             /\ Last(log).rv = Last(log').rv /\ Last(log).attempt = attempt
             /\ (Last(log').res = "Conflict" /\ attempt < RetrySteps)
                  => (pc' = "getStatefulSet" /\ result' = "none")
             /\ Last(log').res = "ok"
                  => sts'[Last(log').name] = [updated EXCEPT !.resourceVersion = nextRV] ]_vars

C3_Witness ==
    /\ pc = "done"
    /\ result = "success"
    /\ attempt >= 2
    /\ \E i \in 1..Len(log) : log[i].op = "update" /\ log[i].res = "Conflict"
    /\ Last(log).op = "update" /\ Last(log).res = "ok"
    /\ current.annotation = 1
    /\ sts[DataNodeName].annotation = 0

\* C4 (token of the same object), as stated: every Update a pass sends carries
\* the resourceVersion that a fetch of the object of that kind and that name
\* returned earlier in the same pass and, for the workload, the same attempt.
C4_TokenOfSameObject ==
    \A i \in 1..Len(log) :
      log[i].op = "update" =>
        \E j \in 1..(i - 1) :
          /\ log[j].op = "get"
          /\ log[j].res = "ok"
          /\ log[j].kind = log[i].kind
          /\ log[j].name = log[i].name
          /\ log[j].attempt = log[i].attempt
          /\ log[j].rv = log[i].rv

\* C7 (exposure service only if declared), as stated: when a pass returns
\* success over a DataNode that declares no recognized exposure port, and
\* all that anyone else has done is one edit of the DataNode before this pass
\* began, no exposure Service owned by the DataNode is live.
C7_ExposureOnlyIfDeclared ==
    [][ (Returns /\ result' = "success" /\ dataNode'.exists /\ dn' = dataNode'
           /\ events' <= 1 /\ ~disturbed'
           /\ ~ExposureDeclared(dataNode', ExposableKeys))
          => ~(svc'[DataNodeName].exists /\ svc'[DataNodeName].owner = dataNode'.name) ]_vars

\* C8 (ownership): every object a pass sends in a Create or an Update, a
\* Service or the StatefulSet, carries the owner reference to the DataNode the
\* pass read, and so does the claim template inside the StatefulSet.
C8_Ownership ==
    \A i \in 1..Len(log) :
      IsWrite(log[i]) =>
        /\ dataNode.exists
        /\ log[i].owner = dataNode.name
        /\ log[i].kind = "StatefulSet" => log[i].pvcOwner = dataNode.name

C8_Witness ==
    /\ pc = "done"
    /\ \E i, j, k \in 1..Len(log) :
         /\ log[i].op = "create" /\ log[i].name = HeadlessName /\ log[i].res = "ok"
         /\ log[j].op = "create" /\ log[j].kind = "Service" /\ log[j].name = DataNodeName
         /\ log[j].res = "ok"
         /\ log[k].op = "update" /\ log[k].kind = "StatefulSet" /\ log[k].res = "ok"

\* C9 (absent DataNode): when the fetch of the DataNode answers NotFound the
\* pass returns success, and on any other error of that fetch it returns
\* failure; either way the fetch is the only call of the pass, so that it has
\* fetched no derived object and sent no Create and no Update.
C9_RootFetch ==
    (pc = "done" /\ Len(log) >= 1 /\ log[1].res # "ok") =>
      /\ log[1].kind = "DataNode"
      /\ Len(log) = 1
      /\ result = IF log[1].res = "NotFound" THEN "success" ELSE "failure"

C9_Witness ==
    /\ pc = "done"
    /\ ~dn.exists
    /\ log = << RootEntry(dn.name, "NotFound") >>
    /\ result = "success"

KindRank(e) == CASE e.kind = "DataNode" -> 0 [] e.kind = "Service" -> 1 [] OTHER -> 2

ListIndex(e) == CHOOSE n \in 1..Len(services) : services[n].name = e.name

\* the calls of a pass come in the order of the code: the DataNode, the
\* Services in the order of the list, the StatefulSet
InOrder ==
    \A i, j \in 1..Len(log) :
      i < j =>
        /\ KindRank(log[i]) <= KindRank(log[j])
        /\ j > 1 => log[j].kind # "DataNode"
        /\ (log[i].kind = "Service" /\ log[j].kind = "Service")
             => ListIndex(log[i]) <= ListIndex(log[j])

\* an error that counts: anything but ok, and but NotFound of a fetch
IsError(e) == e.res # "ok" /\ ~(e.op = "get" /\ e.res = "NotFound")

EndsPass(i) == i = Len(log) /\ pc = "done" /\ result = "failure"

\* C10 (fail-fast and sequential), as stated: the calls come in order, and
\* the first error ends the pass in failure at once, so that no call follows it.
C10_AsStated ==
    /\ InOrder
    /\ \A i \in 1..Len(log) : IsError(log[i]) => EndsPass(i)

IsRetried(e) ==
    e.kind = "StatefulSet" /\ e.op = "update" /\ e.res = "Conflict" /\ e.attempt < RetrySteps

\* C10 (amended): the calls come in order; every error ends the pass in
\* failure at once, except a Conflict of the Update of the workload met before
\* the retry budget is spent, which is followed by the fetch of the next
\* attempt; and after an error in the step of the Services no call for the
\* workload is made.
C10_FailFastButConflict ==
    /\ InOrder
    /\ \A i \in 1..Len(log) :
         /\ (IsError(log[i]) /\ ~IsRetried(log[i])) => EndsPass(i)
         /\ IsRetried(log[i]) =>
              IF i = Len(log)
              THEN pc = "getStatefulSet" /\ result = "none"
              ELSE /\ log[i + 1].op = "get" /\ log[i + 1].kind = "StatefulSet"
                   /\ log[i + 1].attempt = log[i].attempt + 1
         /\ (log[i].kind = "Service" /\ IsError(log[i])) =>
              \A j \in 1..Len(log) : log[j].kind # "StatefulSet"

C10_Witness ==
    /\ pc = "done"
    /\ result = "failure"
    /\ Len(log) = 5
    /\ log[3].kind = "Service" /\ log[3].name = HeadlessName /\ log[3].res = "ok"
    /\ Last(log).kind = "Service" /\ Last(log).name = DataNodeName
    /\ Last(log).op = "create" /\ Last(log).res = "AlreadyExists"
    /\ \A j \in 1..Len(log) : log[j].kind # "StatefulSet"

\* the create at position i of the log lost a race: the fetch just before it,
\* of the same object, answered NotFound, and the create AlreadyExists
LostCreateRace(i) ==
    /\ i > 1
    /\ log[i].op = "create" /\ log[i].res = "AlreadyExists"
    /\ log[i - 1].op = "get" /\ log[i - 1].res = "NotFound"
    /\ log[i - 1].kind = log[i].kind /\ log[i - 1].name = log[i].name

\* C11 (AlreadyExists is benign), as stated: when a Create of a Service or of
\* the StatefulSet answers AlreadyExists because another writer created the
\* object between the fetch of the pass (NotFound) and the Create, the pass
\* does not return failure because of it.
C11_AlreadyExistsBenign ==
    \A i \in 1..Len(log) : LostCreateRace(i) => ~EndsPass(i)

IsWorkloadFetch(e) == e.op = "get" /\ e.kind = "StatefulSet"

\* the calls of the workload step, as the log of the pass shows them
WorkloadRetry ==
    /\ attempt <= RetrySteps
    /\ Len(SelectSeq(log, IsWorkloadFetch)) = attempt
    /\ \A i \in 1..Len(log) :
         log[i].kind = "StatefulSet" =>
           /\ log[i].attempt \in 1..RetrySteps
           /\ IsWrite(log[i]) =>
                /\ IsWorkloadFetch(log[i - 1])
                /\ log[i - 1].attempt = log[i].attempt
           /\ (log[i].op = "update" /\ log[i].res = "Conflict") =>
                IF log[i].attempt < RetrySteps
                THEN IF i = Len(log)
                     THEN pc = "getStatefulSet" /\ result = "none"
                     ELSE IsWorkloadFetch(log[i + 1]) /\ log[i + 1].attempt = log[i].attempt + 1
                ELSE EndsPass(i)
           /\ (IsError(log[i]) /\ log[i].res # "Conflict") => EndsPass(i)

\* C12 (the conflict retry is bounded and terminates): an Update of the
\* workload rejected with Conflict is followed by a new attempt that fetches
\* the live workload again, for at most RetrySteps attempts; when the last
\* attempt is rejected too the pass returns failure, the Conflict being its
\* last call; any other error of the workload step ends the pass at once; and
\* whatever other writers do, a pass that has started returns.
C12_RetryTerminates ==
    /\ []WorkloadRetry
    /\ (pc \notin {"idle", "done"}) ~> (pc = "done")

IsConflict(e) == e.op = "update" /\ e.res = "Conflict"

C12_Witness ==
    /\ pc = "done"
    /\ result = "failure"
    /\ attempt = RetrySteps
    /\ Len(SelectSeq(log, IsConflict)) = RetrySteps
    /\ IsConflict(Last(log)) /\ Last(log).kind = "StatefulSet"

\* C13 (every Conflict is retried), as stated: an Update rejected with
\* Conflict, of a Service as of the StatefulSet, is tried again before the
\* Conflict is returned as the failure of the pass: the Conflict that ends a
\* pass is not the first Conflict of that object in the pass.
C13_ConflictAlwaysRetried ==
    \A i \in 1..Len(log) :
      (IsConflict(log[i]) /\ EndsPass(i)) =>
        \E j \in 1..(i - 1) :
          IsConflict(log[j]) /\ log[j].kind = log[i].kind /\ log[j].name = log[i].name

\* the fields of a Service that the pass derives and may change
MutableConfigEqual(live, want) ==
    /\ live.spec.ports = want.spec.ports
    /\ live.spec.selector = want.spec.selector
    /\ live.spec.type = want.spec.type

\* C14 (the comparison of a Service), as stated: when the fetch of a Service
\* returns a live object whose port list, selector and type equal those of
\* the desired one, the pass sends no Update for it, whatever the other fields
\* of the live object hold.
C14_ComparesThreeFields ==
    [][ (pc = "getService" /\ existing'.exists /\ MutableConfigEqual(existing', services[idx]))
          => pc' # "updateService" ]_vars

-----------------------------------------------------------------------------
(* More claims about the builders *)

\* C15 (the headless Service is canonical), as stated: the headless Service
\* built from any S has seven ports, and each of them carries, as port and as
\* target port, the fixed number of the port key it is named after.
C15_HeadlessCanonical ==
    BuiltServices =>
      LET ports == services[1].spec.ports
      IN  /\ Len(ports) = 7
          /\ \A i \in 1..Len(ports) :
               \E k \in PortKeys :
                 /\ ports[i].name = ToKebabCase(k)
                 /\ ports[i].port = ContainerPortOf[k]
                 /\ ports[i].targetPort = ContainerPortOf[k]

\* C16 (the builders are deterministic), as stated: a second call of
\* constructStateFulSetForDataNode, and of constructServiceForDataNode, on the
\* same S returns an object equal to that of the first call, the order of the
\* environment list and of the port list of the exposure Service included.
C16_BuilderDeterministic ==
    /\ BuiltWorkload =>
         \A order \in EnvOrders(dataNode) :
           constructStateFulSetForDataNode(dataNode, order, schemeOK) = updated
    /\ BuiltServices =>
         \A order \in PortOrders(dataNode) :
           constructServiceForDataNode(dataNode, order, schemeOK).services = services

-----------------------------------------------------------------------------
(* More claims about Reconcile *)

\* the pass read the DataNode and the stamping of an owner reference failed
StampFailed == ~schemeOK /\ Len(log) >= 1 /\ log[1].res = "ok"

\* C17 (a failed stamping is fatal to the pass): when the DataNode type is not
\* registered with the scheme, the pass that read the DataNode returns failure
\* straight after that read, its only call: it sends no Create and no Update,
\* tries nothing again, fetches no live object to compare, and never reaches
\* the dereference of a nil claim or the use of a nil StatefulSet.
C17_StampFailureIsFatal ==
    /\ result # "panic"
    /\ ~IsPanic(updated) /\ updated # NilObject
    /\ StampFailed =>
         /\ pc = "done"
         /\ result = "failure"
         /\ Len(log) = 1
         /\ Writes(log) = << >>
         /\ attempt = 0

C17_Witness ==
    /\ ~schemeOK
    /\ pc = "done"
    /\ result = "failure"
    /\ dataNode.exists
    /\ log = << RootEntry(dataNode.name, "ok") >>

OwnedObject(o) == o.exists /\ o.owner # NoOwner

\* someone other than the pass wrote a live object that bears an owner reference
ManualEditOfOwned ==
    /\ UNCHANGED << pc, log >>
    /\ \/ \E n \in StatefulSetNames : sts'[n] # sts[n] /\ OwnedObject(sts[n])
       \/ \E n \in ServiceNames : svc'[n] # svc[n] /\ OwnedObject(svc[n])

\* C18 (events of owned objects trigger a pass), as stated: every write to a
\* live object that bears an owner reference to the DataNode, a Service or the
\* StatefulSet, puts a request for the DataNode in the work queue, so that a
\* new pass overwrites the manual edit without a change of the DataNode.
C18_OwnedWriteTriggersPass ==
    [][ ManualEditOfOwned => queue' ]_vars

\* C19 (one name for the workload), as stated: every Create and Update of the
\* StatefulSet names the object that the fetch just before it named, so that
\* the workload a pass created is found by the fetch of the next pass, and a
\* Create answers AlreadyExists only when it lost a race with another writer.
C19_FetchNameIsWriteName ==
    \A i \in 1..Len(log) :
      (log[i].kind = "StatefulSet" /\ IsWrite(log[i])) =>
        /\ IsWorkloadFetch(log[i - 1])
        /\ log[i - 1].name = log[i].name
        /\ (log[i].op = "create" /\ log[i].res = "AlreadyExists") => LostCreateRace(i)

\* the names of the objects that the builders derive from d
DerivedNames(d) ==
    UNION { { constructServiceForDataNode(d, order, TRUE).services[i].name :
                i \in 1..Len(constructServiceForDataNode(d, order, TRUE).services) } :
            order \in PortOrders(d) }
    \cup { constructStateFulSetForDataNode(d, order, TRUE).name : order \in EnvOrders(d) }

\* C20 (two DataNodes write disjoint objects), as stated: an object that a
\* pass for one DataNode creates or updates bears a name that the builders
\* derive from no DataNode of another name in the namespace.
C20_DisjointNames ==
    \A i \in 1..Len(log) :
      IsWrite(log[i]) =>
        \A n \in DataNodeNames \ {dataNode.name} :
          \A d \in DataNodeChoices(n) : log[i].name \notin DerivedNames(d)

=============================================================================
